---- MODULE Spec2Model ----
(***************************************************************************)
(* LCOFI level-wise frequent-itemset miner, as written in the three        *)
(* notebooks LCOFI_example, LOCFI_Pak_accidents and LOCFI_connect-game.    *)
(*                                                                         *)
(* Representation                                                          *)
(*   item          a string                                                *)
(*   itemset       a set of items (Python frozenset)                       *)
(*   transaction   a set of items (Python set)                             *)
(*   dict          a sequence of <<key, value>> pairs in insertion order   *)
(*   support       the relative support count / N of a DataFrame row is    *)
(*                 kept as its numerator, the count                        *)
(*   threshold     a fraction <<num, den>> with den > 0; the float         *)
(*                 comparison  count / N >= min_support  is the integer    *)
(*                 comparison  count * den >= num * N                      *)
(* A Python set has no defined iteration order: every operator that        *)
(* iterates a set returns the SET of values the call can produce, one per  *)
(* iteration order, and the calling action picks one of them.              *)
(***************************************************************************)
EXTENDS Integers, Sequences, FiniteSets, TLC

VARIABLES nb, transactions, min_support, pc, G, single_items,
          frequent_itemsets, all_frequent_itemsets, k, candidates,
          run, first_result, min_confidence, rules, error, first_args

vars == <<nb, transactions, min_support, pc, G, single_items,
          frequent_itemsets, all_frequent_itemsets, k, candidates,
          run, first_result, min_confidence, rules, error, first_args>>

(***************************************************************************)
(* Bounds of the model.                                                    *)
(***************************************************************************)
MaxTrans == 2

\* the most itemsets in a previous level handed to generate_candidates alone
MaxLevel == 3

Items == {"A", "B", "C", "Transaction_0"}

MinSupports == {<<0 - 1, 2>>, <<0, 1>>, <<1, 2>>, <<3, 5>>, <<1, 1>>}

\* the labels of the transactions handed to the rule derivation
RuleItems == {"A", "B", "C"}

MinConfidences == {<<0, 1>>, <<1, 2>>, <<3, 5>>, <<1, 1>>}

Notebooks == {"example", "pak", "connect"}

(***************************************************************************)
(* Module-level names of LCOFI_example.ipynb.                              *)
(***************************************************************************)
notebook_transactions ==
    << {"A", "B", "C"}, {"A", "C"}, {"B", "C", "D"}, {"A", "C", "D"}, {"B", "C"} >>

notebook_min_support == <<3, 5>>

\* min_threshold of the rule cell
notebook_min_confidence == <<3, 5>>

(***************************************************************************)
(* Python helpers.                                                         *)
(***************************************************************************)
Range(s) == {s[i] : i \in DOMAIN s}

\* the orders in which a Python set can be iterated
iterations(S) ==
    {s \in [1..Cardinality(S) -> S] : Range(s) = S}

\* keys and items of a dict
keys(d) == {d[i][1] : i \in DOMAIN d}

items(d) == {d[i] : i \in DOMAIN d}

\* str.startswith over the labels of the model: s = prefix + some tail
Tails == {""} \cup {"_" \o ToString(i) : i \in 0..(MaxTrans + Len(notebook_transactions))}

startswith(s, prefix) == \E t \in Tails : s = prefix \o t

\* variant: the raw count is compared with the threshold, the division is forgotten
meets_absolute(count, n, threshold) == count * threshold[2] >= threshold[1]

\* variant: the comparison is strict
meets_strict(count, n, threshold) == count * threshold[2] > threshold[1] * n

\* variant: the comparison is turned round
meets_below(count, n, threshold) == count * threshold[2] <= threshold[1] * n

\* count / len(transactions) >= min_support
meets(count, n, threshold) == count * threshold[2] >= threshold[1] * n

(***************************************************************************)
(* generate_candidates                                                     *)
(***************************************************************************)
\* set(itertools.chain(*frequent_itemsets)): iterating a dict yields its keys
set_chain(d) == UNION keys(d)

\* itertools.combinations(pool, r): the r-length subsequences of pool
RECURSIVE combinations(_, _)
combinations(pool, r) ==
    IF r = 0 THEN {<<>>}
    ELSE IF Len(pool) < r THEN {}
    ELSE {<<Head(pool)>> \o c : c \in combinations(Tail(pool), r - 1)}
         \cup combinations(Tail(pool), r)

frozenset(x) == Range(x)

\* variant: classical Apriori generation, a candidate is kept only if each of
\* its (size-1)-subsets is a key of the previous level
generate_candidates_apriori(d, size) ==
    {{c \in {frozenset(x) : x \in combinations(pool, size)} :
          \A a \in c : (c \ {a}) \in keys(d)} : pool \in iterations(set_chain(d))}

\* variant: the universe is read from the transactions, not from the previous level
generate_candidates_raw(d, size) ==
    {{frozenset(x) : x \in combinations(pool, size)} :
          pool \in iterations(UNION Range(transactions))}

\* variant: the combinations are one item short
generate_candidates_short(d, size) ==
    {{frozenset(x) : x \in combinations(pool, size - 1)} : pool \in iterations(set_chain(d))}

generate_candidates(d, size) ==
    {{frozenset(x) : x \in combinations(pool, size)} : pool \in iterations(set_chain(d))}

(***************************************************************************)
(* count_support                                                           *)
(***************************************************************************)
\* variant: a transaction equal to an earlier one is not counted again
RECURSIVE support_counts_distinct(_, _)
support_counts_distinct(itemsets, trans) ==
    IF trans = <<>>
    THEN [i \in 1..Len(itemsets) |-> <<itemsets[i], 0>>]
    ELSE LET front == SubSeq(trans, 1, Len(trans) - 1)
             before == support_counts_distinct(itemsets, front)
             transaction == trans[Len(trans)]
         IN  [i \in 1..Len(itemsets) |->
                 <<itemsets[i],
                   IF itemsets[i] \subseteq transaction /\ transaction \notin Range(front)
                   THEN before[i][2] + 1 ELSE before[i][2]>>]

\* variant: the inner loop stops at the first itemset the transaction contains
RECURSIVE support_counts_break(_, _)
support_counts_break(itemsets, trans) ==
    IF trans = <<>>
    THEN [i \in 1..Len(itemsets) |-> <<itemsets[i], 0>>]
    ELSE LET before == support_counts_break(itemsets, SubSeq(trans, 1, Len(trans) - 1))
             transaction == trans[Len(trans)]
         IN  [i \in 1..Len(itemsets) |->
                 <<itemsets[i],
                   IF /\ itemsets[i] \subseteq transaction
                      /\ \A j \in 1..(i - 1) : ~(itemsets[j] \subseteq transaction)
                   THEN before[i][2] + 1 ELSE before[i][2]>>]

\* variant: the count is set to 1, not incremented
RECURSIVE support_counts_assign(_, _)
support_counts_assign(itemsets, trans) ==
    IF trans = <<>>
    THEN [i \in 1..Len(itemsets) |-> <<itemsets[i], 0>>]
    ELSE LET before == support_counts_assign(itemsets, SubSeq(trans, 1, Len(trans) - 1))
             transaction == trans[Len(trans)]
         IN  [i \in 1..Len(itemsets) |->
                 <<itemsets[i],
                   IF itemsets[i] \subseteq transaction
                   THEN 1 ELSE before[i][2]>>]

\* support_counts after the double loop over transactions and itemsets;
\* itemsets is the candidate set in its iteration order
RECURSIVE support_counts(_, _)
support_counts(itemsets, trans) ==
    IF trans = <<>>
    THEN [i \in 1..Len(itemsets) |-> <<itemsets[i], 0>>]
    ELSE LET before == support_counts(itemsets, SubSeq(trans, 1, Len(trans) - 1))
             transaction == trans[Len(trans)]
         IN  [i \in 1..Len(itemsets) |->
                 <<itemsets[i],
                   IF itemsets[i] \subseteq transaction
                   THEN before[i][2] + 1 ELSE before[i][2]>>]

\* variant: the filter is forgotten, every counted candidate is returned
retain_all(counts, n, threshold) == counts

\* the comprehension divides each count by len(transactions): with an empty
\* list and a candidate to divide for, Python raises ZeroDivisionError
retain(counts, n, threshold) ==
    IF n = 0 /\ counts # <<>>
    THEN "ZeroDivisionError"
    ELSE SelectSeq(counts, LAMBDA p : meets(p[2], n, threshold))

\* LOCFI_Pak_accidents and LOCFI_connect-game: the threshold is a parameter
count_support(itemsets, trans, threshold) ==
    {retain(support_counts(ord, trans), Len(trans), threshold) : ord \in iterations(itemsets)}

\* LCOFI_example: no threshold parameter, the body reads the module-level name
count_support_example(itemsets, trans) ==
    {retain(support_counts(ord, trans), Len(trans), notebook_min_support) : ord \in iterations(itemsets)}

(***************************************************************************)
(* lcofi                                                                   *)
(***************************************************************************)
transaction_node(i) == "Transaction_" \o ToString(i)

\* nx.Graph() after the add_edge loop; enumerate counts from 0
build_graph(trans) ==
    [nodes |-> UNION {{transaction_node(i - 1)} \cup trans[i] :
                         i \in {j \in DOMAIN trans : trans[j] # {}}},
     edges |-> UNION {{{transaction_node(i - 1), item} : item \in trans[i]} :
                         i \in DOMAIN trans}]

\* G.degree[node]: a self-loop counts twice
degree(graph, node) ==
    Cardinality({e \in graph.edges : node \in e})
    + (IF {node} \in graph.edges THEN 1 ELSE 0)

\* variant: an item needs more than one edge
seed_items_multi(graph) ==
    {{node} : node \in {n \in graph.nodes :
                           degree(graph, n) > 1 /\ ~startswith(n, "Transaction")}}

seed_items(graph) ==
    {{node} : node \in {n \in graph.nodes :
                           degree(graph, n) > 0 /\ ~startswith(n, "Transaction")}}

\* the count_support call of the notebook nb
call_count_support(itemsets) ==
    IF nb = "example"
    THEN count_support_example(itemsets, transactions)
    ELSE count_support(itemsets, transactions, min_support)

EmptyGraph == [nodes |-> {}, edges |-> {}]

TransactionLists ==
    UNION {[1..n -> SUBSET Items] : n \in 0..MaxTrans}

Init ==
    /\ nb \in Notebooks
    /\ \/ /\ transactions \in TransactionLists
          /\ min_support \in MinSupports
       \/ /\ transactions = notebook_transactions
          /\ min_support = notebook_min_support
    /\ pc = "start"
    /\ G = EmptyGraph
    /\ single_items = {}
    /\ frequent_itemsets = <<>>
    /\ all_frequent_itemsets = <<>>
    /\ k = 0
    /\ candidates = {}
    /\ run = 1
    /\ first_result = <<>>
    /\ min_confidence = <<0, 1>>
    /\ rules = {}
    /\ error = ""
    /\ first_args = <<>>

BuildGraph ==
    /\ pc = "start"
    /\ G' = build_graph(transactions)
    /\ pc' = "graph"
    /\ UNCHANGED <<nb, transactions, min_support, single_items, frequent_itemsets,
                   all_frequent_itemsets, k, candidates, run, first_result,
                   min_confidence, rules, error, first_args>>

Seed ==
    /\ pc = "graph"
    /\ single_items' = seed_items(G)
    /\ frequent_itemsets' \in call_count_support(single_items')
    /\ all_frequent_itemsets' = <<frequent_itemsets'>>
    /\ k' = 2
    /\ pc' = "loop"
    /\ UNCHANGED <<nb, transactions, min_support, G, candidates, run, first_result,
                   min_confidence, rules, error, first_args>>

\* variant: the level is appended without the emptiness test
Iterate_append_always ==
    /\ pc = "loop"
    /\ frequent_itemsets # <<>>
    /\ candidates' \in generate_candidates(frequent_itemsets, k)
    /\ frequent_itemsets' \in call_count_support(candidates')
    /\ all_frequent_itemsets' = Append(all_frequent_itemsets, frequent_itemsets')
    /\ k' = k + 1
    /\ UNCHANGED <<nb, transactions, min_support, pc, G, single_items, run, first_result,
                   min_confidence, rules, error, first_args>>

\* variant: the new level is written into the mapping of the previous level,
\* which the output list already holds
Iterate_alias ==
    /\ pc = "loop"
    /\ frequent_itemsets # <<>>
    /\ candidates' \in generate_candidates(frequent_itemsets, k)
    /\ frequent_itemsets' \in call_count_support(candidates')
    /\ all_frequent_itemsets' =
           LET written == [all_frequent_itemsets
                              EXCEPT ![Len(all_frequent_itemsets)] = frequent_itemsets']
           IN  IF frequent_itemsets' # <<>>
               THEN Append(written, frequent_itemsets')
               ELSE written
    /\ k' = k + 1
    /\ UNCHANGED <<nb, transactions, min_support, pc, G, single_items, run, first_result,
                   min_confidence, rules, error, first_args>>

Iterate ==
    /\ pc = "loop"
    /\ frequent_itemsets # <<>>
    /\ candidates' \in generate_candidates(frequent_itemsets, k)
    /\ frequent_itemsets' \in call_count_support(candidates')
    /\ all_frequent_itemsets' =
           IF frequent_itemsets' # <<>>
           THEN Append(all_frequent_itemsets, frequent_itemsets')
           ELSE all_frequent_itemsets
    /\ k' = k + 1
    /\ UNCHANGED <<nb, transactions, min_support, pc, G, single_items, run, first_result,
                   min_confidence, rules, error, first_args>>

Return ==
    /\ pc = "loop"
    /\ frequent_itemsets = <<>>
    /\ pc' = "done"
    /\ UNCHANGED <<nb, transactions, min_support, G, single_items, frequent_itemsets,
                   all_frequent_itemsets, k, candidates, run, first_result,
                   min_confidence, rules, error, first_args>>

\* the level mappings of a result as sets of (itemset, count) pairs
as_sets(levels) == [i \in DOMAIN levels |-> items(levels[i])]

\* a second call of lcofi with the same arguments
Rerun ==
    /\ pc = "done"
    /\ run = 1
    /\ first_result' = as_sets(all_frequent_itemsets)
    /\ run' = 2
    /\ pc' = "start"
    /\ G' = EmptyGraph
    /\ single_items' = {}
    /\ frequent_itemsets' = <<>>
    /\ all_frequent_itemsets' = <<>>
    /\ k' = 0
    /\ candidates' = {}
    /\ UNCHANGED <<nb, transactions, min_support, min_confidence, rules, error, first_args>>

Next == BuildGraph \/ Seed \/ Iterate \/ Return

\* one call of lcofi
Spec == Init /\ [][Next]_vars

(***************************************************************************)
(* generate_candidates called on its own: the previous level is any dict   *)
(* of at most MaxLevel non-empty itemsets over Items, the size any size    *)
(* up to one more than the number of items.                                *)
(***************************************************************************)
Sizes == 1..(Cardinality(Items) + 1)

PreviousLevels ==
    UNION {{[i \in 1..Len(ord) |-> <<ord[i], 1>>] : ord \in iterations(ks)} :
              ks \in {S \in SUBSET (SUBSET Items \ {{}}) : Cardinality(S) <= MaxLevel}}

InitGen ==
    /\ nb = "pak"
    /\ transactions = <<>>
    /\ min_support = <<1, 2>>
    /\ pc = "generate"
    /\ G = EmptyGraph
    /\ single_items = {}
    /\ frequent_itemsets \in PreviousLevels
    /\ all_frequent_itemsets = <<>>
    /\ k \in Sizes
    /\ candidates = {}
    /\ run = 1
    /\ first_result = <<>>
    /\ min_confidence = <<0, 1>>
    /\ rules = {}
    /\ error = ""
    /\ first_args = <<>>

Generate ==
    /\ pc = "generate"
    /\ candidates' \in generate_candidates(frequent_itemsets, k)
    /\ pc' = "generated"
    /\ UNCHANGED <<nb, transactions, min_support, G, single_items, frequent_itemsets,
                   all_frequent_itemsets, k, run, first_result,
                   min_confidence, rules, error, first_args>>

NextGen == Generate

SpecGen == InitGen /\ [][NextGen]_vars

NextTwice == Next \/ Rerun

\* two calls of lcofi, one after the other, on the same arguments
SpecTwice == Init /\ [][NextTwice]_vars

(***************************************************************************)
(* lcofi called a second time on the same transactions in another order.   *)
(***************************************************************************)
\* the labels of the transactions of this specification
PermutedItems == {"A", "B", "Transaction_0"}

PermutedTransactionLists ==
    UNION {[1..n -> SUBSET PermutedItems] : n \in 0..MaxTrans}

\* the lists that hold the transactions of trans in some order
permutations(trans) ==
    {[i \in DOMAIN trans |-> trans[f[i]]] : f \in iterations(DOMAIN trans)}

InitPermuted ==
    /\ nb \in Notebooks
    /\ transactions \in PermutedTransactionLists
    /\ min_support \in MinSupports
    /\ pc = "start"
    /\ G = EmptyGraph
    /\ single_items = {}
    /\ frequent_itemsets = <<>>
    /\ all_frequent_itemsets = <<>>
    /\ k = 0
    /\ candidates = {}
    /\ run = 1
    /\ first_result = <<>>
    /\ min_confidence = <<0, 1>>
    /\ rules = {}
    /\ error = ""
    /\ first_args = <<>>

RerunPermuted ==
    /\ pc = "done"
    /\ run = 1
    /\ first_result' = as_sets(all_frequent_itemsets)
    /\ first_args' = <<transactions, min_support>>
    /\ transactions' \in permutations(transactions)
    /\ run' = 2
    /\ pc' = "start"
    /\ G' = EmptyGraph
    /\ single_items' = {}
    /\ frequent_itemsets' = <<>>
    /\ all_frequent_itemsets' = <<>>
    /\ k' = 0
    /\ candidates' = {}
    /\ UNCHANGED <<nb, min_support, min_confidence, rules, error>>

NextPermuted == Next \/ RerunPermuted

SpecPermuted == InitPermuted /\ [][NextPermuted]_vars

(***************************************************************************)
(* generate_association_rules                                              *)
(***************************************************************************)
\* dict.update: a key already present keeps its place and takes the new value
RECURSIVE update(_, _)
update(d, e) ==
    IF e = <<>> THEN d
    ELSE LET p == Head(e)
         IN  update(IF p[1] \in keys(d)
                    THEN [i \in DOMAIN d |-> IF d[i][1] = p[1] THEN p ELSE d[i]]
                    ELSE Append(d, p),
                    Tail(e))

\* variant: each level replaces the mapping, only the last one is left
flatten_last(levels) ==
    IF levels = <<>> THEN <<>> ELSE levels[Len(levels)]

\* flat_itemsets after the loop over the levels
RECURSIVE flatten(_)
flatten(levels) ==
    IF levels = <<>> THEN <<>>
    ELSE update(flatten(SubSeq(levels, 1, Len(levels) - 1)), levels[Len(levels)])

\* frequent_items_dict[key]
lookup(d, key) == d[CHOOSE i \in DOMAIN d : d[i][1] = key][2]

\* variant: the consequent is the whole itemset
rule_splits_whole(itemset) ==
    {<<antecedent, itemset>> : antecedent \in (SUBSET itemset) \ {{}, itemset}}

\* association_rules: the (antecedent, consequent) pairs tried for an itemset;
\* the antecedents are frozenset(c) for c in combinations(k, r=idx), idx from
\* len(k) - 1 down to 1, which are the non-empty proper subsets of k whatever
\* the order k is iterated in
rule_splits(itemset) ==
    {<<antecedent, itemset \ antecedent>> :
        antecedent \in (SUBSET itemset) \ {{}, itemset}}

\* variant: a rule of confidence 1, whose conviction is not finite, is left out
confidence_meets_finite(sAC, sA, threshold) ==
    IF sA = 0 THEN FALSE
    ELSE sAC # sA /\ sAC * threshold[2] >= threshold[1] * sA

\* association_rules: score >= min_threshold for the score sAC / sA of numpy
\* floats; 0/0 is nan, which no comparison accepts, and x/0 is inf
confidence_meets(sAC, sA, threshold) ==
    IF sA = 0 THEN sAC > 0
    ELSE sAC * threshold[2] >= threshold[1] * sA

\* variant: a score equal to the threshold is refused
confidence_meets_epsilon_strict(sAC, sA, threshold) ==
    sAC * threshold[2] > threshold[1] * sA

\* the same test in the rule cell of LCOFI_example, where each support has had
\* epsilon = 1e-10 added: (sAC/N + epsilon) / (sA/N + epsilon) >= p/q is decided
\* by the sign of sAC*q - p*sA and, when that is 0, by the sign of (q - p)*epsilon
confidence_meets_epsilon(sAC, sA, threshold) ==
    \/ sAC * threshold[2] > threshold[1] * sA
    \/ sAC * threshold[2] = threshold[1] * sA /\ threshold[2] >= threshold[1]

\* variant: the support of the rule is read from the row of the consequent
rule_row_consequent(df, split) ==
    [antecedents |-> split[1], consequents |-> split[2],
     antecedent_support |-> lookup(df, split[1]),
     consequent_support |-> lookup(df, split[2]),
     support |-> lookup(df, split[2])]

\* one row of the returned DataFrame; the supports are counts over N
rule_row(df, split) ==
    [antecedents |-> split[1], consequents |-> split[2],
     antecedent_support |-> lookup(df, split[1]),
     consequent_support |-> lookup(df, split[2]),
     support |-> lookup(df, split[1] \cup split[2])]

\* mlxtend association_rules(df, metric="confidence", min_threshold): what the
\* call raises, if anything, and the rows it returns (their order is the
\* iteration order of the dict and of the itemsets and is not kept)
association_rules(df, min_threshold, epsilon) ==
    IF df = <<>>
    THEN [error |-> "ValueError", rules |-> {}]
    ELSE IF \E itemset \in keys(df) : \E split \in rule_splits(itemset) :
                split[1] \notin keys(df) \/ split[2] \notin keys(df)
    THEN [error |-> "KeyError", rules |-> {}]
    ELSE [error |-> "",
          rules |-> {rule_row(df, split) :
                        split \in {sp \in UNION {rule_splits(itemset) : itemset \in keys(df)} :
                                      IF epsilon
                                      THEN confidence_meets_epsilon(
                                               lookup(df, sp[1] \cup sp[2]),
                                               lookup(df, sp[1]), min_threshold)
                                      ELSE confidence_meets(
                                               lookup(df, sp[1] \cup sp[2]),
                                               lookup(df, sp[1]), min_threshold)}}]

\* LOCFI_Pak_accidents and LOCFI_connect-game
generate_association_rules(levels, trans, threshold) ==
    LET flat_itemsets == flatten(levels)
    IN  IF flat_itemsets # <<>> /\ Len(trans) = 0
        THEN [error |-> "ZeroDivisionError", rules |-> {}]
        ELSE association_rules(flat_itemsets, threshold, FALSE)

\* the rule cell of LCOFI_example: rows of support 0 are removed, epsilon is
\* added to every support and the threshold is the literal 0.6
rule_cell(levels, trans) ==
    LET flat_itemsets == flatten(levels)
    IN  IF flat_itemsets # <<>> /\ Len(trans) = 0
        THEN [error |-> "ZeroDivisionError", rules |-> {}]
        ELSE association_rules(SelectSeq(flat_itemsets, LAMBDA p : p[2] > 0),
                               notebook_min_confidence, TRUE)

RuleTransactionLists ==
    UNION {[1..n -> SUBSET RuleItems] : n \in 0..MaxTrans}

InitRules ==
    /\ nb \in Notebooks
    /\ \/ /\ transactions \in RuleTransactionLists
          /\ min_support \in MinSupports
       \/ /\ transactions = notebook_transactions
          /\ min_support = notebook_min_support
    /\ pc = "start"
    /\ G = EmptyGraph
    /\ single_items = {}
    /\ frequent_itemsets = <<>>
    /\ all_frequent_itemsets = <<>>
    /\ k = 0
    /\ candidates = {}
    /\ run = 1
    /\ first_result = <<>>
    /\ min_confidence = <<0, 1>>
    /\ rules = {}
    /\ error = ""
    /\ first_args = <<>>

\* the rules are derived from the levels lcofi returned
DeriveRules ==
    /\ pc = "done"
    /\ min_confidence' \in (IF nb = "example" THEN {notebook_min_confidence}
                                              ELSE MinConfidences)
    /\ \E out \in {IF nb = "example"
                    THEN rule_cell(all_frequent_itemsets, transactions)
                    ELSE generate_association_rules(all_frequent_itemsets, transactions,
                                                    min_confidence')} :
           /\ rules' = out.rules
           /\ error' = out.error
    /\ pc' = "rules"
    /\ UNCHANGED <<nb, transactions, min_support, G, single_items, frequent_itemsets,
                   all_frequent_itemsets, k, candidates, run, first_result, first_args>>

NextRules == Next \/ DeriveRules

\* one call of lcofi followed by the derivation of the rules
SpecRules == InitRules /\ [][NextRules]_vars

(***************************************************************************)
(* lcofi called a second time on the same transactions with a threshold    *)
(* that is not smaller.                                                    *)
(***************************************************************************)
\* s1 <= s2 for two fractions of positive denominator
at_most(s1, s2) == s1[1] * s2[2] <= s2[1] * s1[2]

RerunThreshold ==
    /\ pc = "done"
    /\ run = 1
    /\ first_result' = as_sets(all_frequent_itemsets)
    /\ first_args' = <<transactions, min_support>>
    /\ min_support' \in {s2 \in MinSupports : at_most(min_support, s2)}
    /\ run' = 2
    /\ pc' = "start"
    /\ G' = EmptyGraph
    /\ single_items' = {}
    /\ frequent_itemsets' = <<>>
    /\ all_frequent_itemsets' = <<>>
    /\ k' = 0
    /\ candidates' = {}
    /\ UNCHANGED <<nb, transactions, min_confidence, rules, error>>

NextThreshold == Next \/ RerunThreshold

SpecThreshold == InitRules /\ [][NextThreshold]_vars

\* one call of lcofi, run to its end: Python executes the statements of the
\* function one after the other, so a step that can be taken is taken
SpecLive == InitRules /\ [][Next]_vars /\ WF_vars(Next)

(***************************************************************************)
(* Vocabulary of the properties.                                           *)
(***************************************************************************)
N == Len(transactions)

\* the number of positions whose transaction contains F
Support(F) == Cardinality({i \in DOMAIN transactions : F \subseteq transactions[i]})

KSubsets(U, n) == {S \in SUBSET U : Cardinality(S) = n}

\* the threshold the running notebook compares with
threshold_applied == IF nb = "example" THEN notebook_min_support ELSE min_support

DistinctItems == UNION Range(transactions)

Returned == pc = "done"

\* C1: after lcofi (Pak accidents / connect-game text) returns on N > 0
\* transactions, every itemset stored in level i has exactly i items and
\* its relative support count/N is at least the min_support argument
C1_LevelsSizedAndFrequent ==
    (Returned /\ nb # "example" /\ N > 0) =>
        \A i \in DOMAIN all_frequent_itemsets :
            \A F \in keys(all_frequent_itemsets[i]) :
                /\ Cardinality(F) = i
                /\ Support(F) * min_support[2] >= min_support[1] * N

\* a returned level 2 holding an itemset whose support equals the threshold
C1_Witness ==
    /\ Returned /\ nb = "pak" /\ N > 0
    /\ Len(all_frequent_itemsets) >= 2
    /\ \E F \in keys(all_frequent_itemsets[2]) :
           Support(F) * min_support[2] = min_support[1] * N

\* C2: the count stored with every retained candidate is the number of
\* positions of the transaction list whose transaction contains it
C2_StoredCountIsSupport ==
    /\ \A i \in DOMAIN all_frequent_itemsets :
           \A p \in items(all_frequent_itemsets[i]) : p[2] = Support(p[1])
    /\ \A p \in items(frequent_itemsets) : p[2] = Support(p[1])

\* a retained candidate counted twice for two equal transactions
C2_Witness ==
    /\ pc = "loop"
    /\ \E i, j \in DOMAIN transactions :
           /\ i # j /\ transactions[i] = transactions[j]
           /\ \E p \in items(frequent_itemsets) :
                  p[1] \subseteq transactions[i] /\ p[2] = 2

\* C3: the five-transaction example at min_support 0.6 returns level 1 =
\* {C:5, A:3, B:3} and level 2 = {AC:3, BC:3}; {A,B,C} is the only level-3
\* candidate, it is dropped and the loop stops
C3_ExampleLevels ==
    (Returned /\ transactions = notebook_transactions /\ min_support = <<3, 5>>) =>
        /\ Len(all_frequent_itemsets) = 2
        /\ items(all_frequent_itemsets[1]) =
               {<<{"C"}, 5>>, <<{"A"}, 3>>, <<{"B"}, 3>>}
        /\ items(all_frequent_itemsets[2]) =
               {<<{"A", "C"}, 3>>, <<{"B", "C"}, 3>>}
        /\ candidates = {{"A", "B", "C"}}
        /\ frequent_itemsets = <<>>
        /\ k = 4

C3_Witness ==
    Returned /\ nb = "example" /\ transactions = notebook_transactions

\* C4: when no single item meets min_support the returned list of levels
\* has length 0
C4_EmptyListWhenNoFrequentItem ==
    (Returned /\ \A x \in DistinctItems : ~meets(Support({x}), N, min_support)) =>
        Len(all_frequent_itemsets) = 0

\* C5: a step taken after an empty level changes neither k, the candidates
\* nor the levels; and a result whose level 1 is non-empty holds the
\* non-empty levels 1..L, level i of size-i itemsets, after exactly one
\* empty iteration, the one for size L+1
C5_Step ==
    /\ (pc = "loop" /\ frequent_itemsets = <<>>) =>
           UNCHANGED <<k, candidates, frequent_itemsets, all_frequent_itemsets>>
    /\ (pc' = "done" /\ all_frequent_itemsets'[1] # <<>>) =>
           LET L == Len(all_frequent_itemsets')
           IN  /\ \A i \in 1..L :
                      /\ all_frequent_itemsets'[i] # <<>>
                      /\ \A F \in keys(all_frequent_itemsets'[i]) : Cardinality(F) = i
               /\ frequent_itemsets' = <<>>
               /\ k' = L + 2
               /\ candidates' = KSubsets(set_chain(all_frequent_itemsets'[L]), L + 1)
               /\ \A c \in candidates' : ~meets(Support(c), N, threshold_applied)

C5_NoGapsStopAtFirstEmpty == [][C5_Step]_vars

\* a result of three levels, the loop left at k = 5
C5_Witness ==
    /\ Returned
    /\ Len(all_frequent_itemsets) = 3
    /\ k = 5

\* C6: whatever the iteration order, generate_candidates(previous_level, k)
\* returns exactly the set of all k-element subsets of the union U of the
\* itemsets of previous_level, and the empty set when previous_level is
\* empty or U has fewer than k items
C6_AllKSubsets ==
    pc = "generated" =>
        /\ candidates = KSubsets(set_chain(frequent_itemsets), k)
        /\ (frequent_itemsets = <<>> \/ Cardinality(set_chain(frequent_itemsets)) < k)
               => candidates = {}

\* from a level of 2-itemsets, a size-3 candidate one of whose 2-subsets is
\* not in that level
C6_Witness ==
    /\ pc = "generated"
    /\ k = 3
    /\ \A F \in keys(frequent_itemsets) : Cardinality(F) = 2
    /\ \E c \in candidates : \E a \in c : (c \ {a}) \notin keys(frequent_itemsets)

\* C7: every item of an itemset of level i >= 2 occurs in an itemset of
\* level i-1
C7_ItemsFromPreviousLevel ==
    \A i \in 2..Len(all_frequent_itemsets) :
        \A F \in keys(all_frequent_itemsets[i]) :
            F \subseteq set_chain(all_frequent_itemsets[i - 1])

\* a level 2 exists, and a pair that meets the threshold holds an item
\* that level 1 does not
C7_Witness ==
    /\ Len(all_frequent_itemsets) >= 2
    /\ \E x \in DistinctItems \ set_chain(all_frequent_itemsets[1]) :
           \E y \in set_chain(all_frequent_itemsets[1]) :
               /\ meets(Support({x, y}), N, threshold_applied)
               /\ Support({x, y}) > 0

\* C8: the level-1 seed is the set of distinct items of the transactions,
\* whatever the labels are
C8_SeedIsDistinctItems ==
    pc \in {"loop", "done"} => single_items = {{x} : x \in DistinctItems}

\* the candidates counted for level i
LevelCandidates(i) ==
    IF i = 1 THEN single_items
    ELSE KSubsets(set_chain(all_frequent_itemsets[i - 1]), i)

\* C9: in each of the three notebooks every level keeps exactly the
\* candidates whose relative support is at least the min_support argument
C9_ThresholdIsArgument ==
    (pc \in {"loop", "done"} /\ N > 0) =>
        \A i \in DOMAIN all_frequent_itemsets :
            keys(all_frequent_itemsets[i]) =
                {c \in LevelCandidates(i) : meets(Support(c), N, min_support)}

\* C10: a second run on the same arguments returns as many levels as the
\* first and, level by level, the same set of (itemset, count) pairs
C10_SecondRunSameResult ==
    (Returned /\ run = 2) => as_sets(all_frequent_itemsets) = first_result

\* a second run that returned two levels, the first of several itemsets
C10_Witness ==
    /\ Returned /\ run = 2
    /\ Len(all_frequent_itemsets) >= 2
    /\ Len(all_frequent_itemsets[1]) >= 3
    /\ Len(all_frequent_itemsets[2]) >= 2

\* C11: with N > 0 and every min_support in [0, 1], no level holds a
\* candidate whose count is 0: every retained itemset is contained in at
\* least one transaction (at min_support = 0 the test count / N >= 0 lets a
\* count of 0 through)
C11_NoZeroCountRetained_Closed ==
    (N > 0 /\ meets(1, 1, min_support) /\ min_support[1] >= 0) =>
        /\ \A p \in items(frequent_itemsets) : p[2] > 0 /\ Support(p[1]) > 0
        /\ \A i \in DOMAIN all_frequent_itemsets :
               \A p \in items(all_frequent_itemsets[i]) : p[2] > 0 /\ Support(p[1]) > 0

\* the rule derivation has run
Derived == pc = "rules"

\* fractions <<num, den>>
FracEq(x, y) == x[1] * y[2] = y[1] * x[2]

\* confidence and lift of a returned row, from its three supports
Confidence(r) == <<r.support, r.antecedent_support>>

Lift(r) == <<r.support * N, r.antecedent_support * r.consequent_support>>

Row(A, C, sA, sC, sAC) ==
    [antecedents |-> A, consequents |-> C,
     antecedent_support |-> sA, consequent_support |-> sC, support |-> sAC]

\* C15: on the five-transaction example with min_support 0.6 and
\* min_confidence 0.6 the derivation returns exactly four rules: A -> C
\* (support 3/5, confidence 1, lift 1), C -> A (support 3/5, confidence 3/5,
\* lift 1), B -> C (confidence 1) and C -> B (confidence 3/5); the supports
\* are those of the printed table, to its two decimals
C15_ExampleRules ==
    (Derived /\ transactions = notebook_transactions
             /\ min_support = <<3, 5>> /\ min_confidence = <<3, 5>>) =>
        /\ error = ""
        /\ rules = {Row({"A"}, {"C"}, 3, 5, 3), Row({"C"}, {"A"}, 5, 3, 3),
                    Row({"B"}, {"C"}, 3, 5, 3), Row({"C"}, {"B"}, 5, 3, 3)}
        /\ \A r \in rules :
               /\ FracEq(<<r.support, N>>, <<3, 5>>)
               /\ FracEq(Lift(r), <<1, 1>>)
               /\ FracEq(Confidence(r),
                         IF r.consequents = {"C"} THEN <<1, 1>> ELSE <<3, 5>>)

\* the rule cell of the example notebook has run on its own transactions
C15_Witness ==
    /\ Derived /\ nb = "example"
    /\ transactions = notebook_transactions
    /\ Cardinality(rules) = 4

\* the flattened mapping of the returned levels and the rows handed to
\* association_rules (the rule cell of the example removes the rows of
\* support 0)
Flat == flatten(all_frequent_itemsets)

Table ==
    LET flat == Flat
    IN  IF nb = "example" THEN {p \in items(flat) : p[2] > 0} ELSE items(flat)

TableKeys == {p[1] : p \in Table}

\* the splits A -> F \ A of the itemsets F of at least two items, both sides
\* of which have a row
Splits ==
    LET rows == TableKeys
    IN  {sp \in UNION {{<<A, F \ A>> : A \in (SUBSET F) \ {{}, F}} :
                          F \in {X \in rows : Cardinality(X) >= 2}} :
            sp[1] \in rows /\ sp[2] \in rows}

RulePairs == {<<r.antecedents, r.consequents>> : r \in rules}

Pow2(n) == IF n = 0 THEN 1 ELSE IF n = 1 THEN 2 ELSE IF n = 2 THEN 4 ELSE 8

\* C12: the derivation returns exactly the rules A -> F \ A, F a frequent
\* itemset of at least two items and A a non-empty proper subset with both
\* supports in the flattened mapping, whose count(F)/count(A) is at least
\* min_confidence (equality included); so with min_confidence = 0 every F
\* contributes 2^|F| - 2 rules
C12_ExactlyTheConfidentSplits ==
    Derived =>
        /\ error = ""
        /\ RulePairs = {sp \in Splits :
                           /\ Support(sp[1]) > 0
                           /\ Support(sp[1] \cup sp[2]) * min_confidence[2]
                                  >= min_confidence[1] * Support(sp[1])}
        /\ min_confidence[1] = 0 =>
               \A F \in {X \in TableKeys : Cardinality(X) >= 2} :
                   Cardinality({sp \in RulePairs : sp[1] \cup sp[2] = F})
                       = Pow2(Cardinality(F)) - 2

\* C13: every returned rule has a non-empty antecedent and a non-empty
\* consequent, the two are disjoint, and their union is an itemset of at
\* least two items that is present in the mined levels
C13_RuleShape ==
    Derived =>
        \A r \in rules :
            /\ r.antecedents # {} /\ r.consequents # {}
            /\ r.antecedents \cap r.consequents = {}
            /\ Cardinality(r.antecedents \cup r.consequents) >= 2
            /\ \E i \in DOMAIN all_frequent_itemsets :
                   (r.antecedents \cup r.consequents) \in keys(all_frequent_itemsets[i])

\* rules were returned from an itemset of three items, one with an
\* antecedent of two items
C13_Witness ==
    /\ Derived
    /\ \E r \in rules : Cardinality(r.antecedents) = 2 /\ Cardinality(r.consequents) = 1

\* C14: for every returned rule the support of the rule is the count of
\* antecedent and consequent together and is at most the count of the
\* antecedent and at most the count of the consequent, so its confidence
\* count(A u C)/count(A) is defined and lies in [0, 1]
C14_SupportAtMostSides ==
    Derived =>
        \A r \in rules :
            /\ r.support = Support(r.antecedents \cup r.consequents)
            /\ r.antecedent_support = Support(r.antecedents)
            /\ r.consequent_support = Support(r.consequents)
            /\ r.support <= r.antecedent_support
            /\ r.support <= r.consequent_support
            /\ r.antecedent_support > 0
            /\ 0 <= r.support

\* a returned rule whose confidence is strictly between 0 and 1, and one
\* whose support is below the consequent's
C14_Witness ==
    /\ Derived
    /\ \E r \in rules : 0 < r.support /\ r.support < r.antecedent_support
    /\ \E r \in rules : 0 < r.support /\ r.support < r.consequent_support

\* C16: a split whose antecedent or consequent support is zero, or whose
\* confidence is 1 (the conviction denominator is zero), is not returned as
\* a rule, and the derivation goes on without aborting
C16_UndefinedMetricSkipped ==
    Derived =>
        /\ error = ""
        /\ \A sp \in Splits :
               (\/ Support(sp[1]) = 0
                \/ Support(sp[2]) = 0
                \/ Support(sp[1] \cup sp[2]) = Support(sp[1]))
                   => sp \notin RulePairs

\* C16, amended: a split is left out exactly when its antecedent support is
\* zero or its confidence is below min_confidence, a split of confidence 1
\* or of consequent support zero is returned like any other, and no split
\* makes the derivation abort: it raises only when there is no row at all
C16_OnlyZeroAntecedentSkipped ==
    Derived =>
        /\ error = "" \/ (error = "ValueError" /\ Table = {})
        /\ error = "" =>
               RulePairs = {sp \in Splits :
                               /\ Support(sp[1]) > 0
                               /\ Support(sp[1] \cup sp[2]) * min_confidence[2]
                                      >= min_confidence[1] * Support(sp[1])}

\* in one derivation a split of antecedent support zero was left out, a rule
\* of confidence 1 was returned and so was a rule of consequent support zero
C16_Witness ==
    /\ Derived /\ error = ""
    /\ \E sp \in Splits : Support(sp[1]) = 0 /\ sp \notin RulePairs
    /\ \E r \in rules : r.support = r.antecedent_support
    /\ \E r \in rules : r.consequent_support = 0

\* C20: when the mined levels hold no itemset of two or more items, the
\* derivation completes normally and returns no rule
C20_NoPairsNoRules ==
    (Derived /\ \A i \in DOMAIN all_frequent_itemsets :
                    \A F \in keys(all_frequent_itemsets[i]) : Cardinality(F) < 2) =>
        error = "" /\ rules = {}

\* a threshold outside (0, 1]
InvalidThreshold(t) == t[1] <= 0 \/ t[1] > t[2]

\* C17: a min_support outside [0, 1] or equal to 0 is reported as
\* InvalidThreshold before any transaction is scanned: no graph is built,
\* no level is computed and no result is returned
C17_InvalidThresholdAborts ==
    InvalidThreshold(min_support) =>
        /\ G = EmptyGraph
        /\ all_frequent_itemsets = <<>>
        /\ ~Returned

\* C18: mining an empty transaction list ends in a reported
\* EmptyTransactionSet error: lcofi neither returns a result nor fails with
\* a raw division by zero
C18_EmptyListReported ==
    N = 0 =>
        /\ ~Returned
        /\ error # "ZeroDivisionError"
        /\ all_frequent_itemsets = <<>>

\* the levels, as sets of (itemset, count) pairs, that lcofi returns when its
\* candidates are generated with (pruned) or without the test that every
\* (k-1)-subset of a candidate is in the previous level
RECURSIVE levels_after(_, _, _, _, _)
levels_after(level, size, trans, threshold, pruned) ==
    IF level = <<>> THEN <<>>
    ELSE LET cands == CHOOSE c \in (IF pruned
                                     THEN generate_candidates_apriori(level, size)
                                     ELSE generate_candidates(level, size)) : TRUE
             next == CHOOSE d \in count_support(cands, trans, threshold) : TRUE
         IN  IF next = <<>> THEN <<>>
             ELSE <<items(next)>> \o levels_after(next, size + 1, trans, threshold, pruned)

miner(trans, threshold, pruned) ==
    LET first == CHOOSE d \in count_support(seed_items(build_graph(trans)),
                                            trans, threshold) : TRUE
    IN  <<items(first)>> \o levels_after(first, 2, trans, threshold, pruned)

\* C19: leaving out the subset-frequency pruning is observable: for some
\* transaction list and threshold the miner that generates all
\* k-combinations and the miner that generates candidates as classical
\* Apriori does return different levels or counts (the inputs are those of
\* the model, the ones of the current call among them)
C19_PruningObservable ==
    \E trans \in RuleTransactionLists \cup {notebook_transactions, transactions} :
        \E threshold \in MinSupports \cup {threshold_applied} :
            miner(trans, threshold, FALSE) # miner(trans, threshold, TRUE)

\* C19, amended: leaving out the pruning is not observable in the result:
\* the levels and counts lcofi returns are those the miner with classical
\* Apriori generation returns; only the candidates counted differ
C19_PruningNotObservable ==
    Returned =>
        as_sets(all_frequent_itemsets) = miner(transactions, threshold_applied, TRUE)

\* lcofi returned after counting a candidate that classical Apriori
\* generation would not have generated
C19_Witness ==
    /\ Returned
    /\ Len(all_frequent_itemsets) >= 2
    /\ \E c \in candidates :
           \E a \in c : (c \ {a}) \notin keys(all_frequent_itemsets[Len(all_frequent_itemsets)])

\* C21: the raw count of every candidate over a transaction list T1 ++ T2 is
\* the sum of its counts over T1 and over T2, whatever the split and the
\* order the candidates are iterated in; and lcofi called on the same
\* transactions in another order returns the same levels, as sets of
\* (itemset, count) pairs
C21_CountingAdditive ==
    /\ pc = "loop" =>
           \A S \in {single_items, candidates} :
               \A ord \in iterations(S) :
                   \E whole \in {support_counts(ord, transactions)} :
                       \A j \in 0..N :
                           \E first \in {support_counts(ord, SubSeq(transactions, 1, j))} :
                               \E second \in {support_counts(ord, SubSeq(transactions, j + 1, N))} :
                                   \A i \in 1..Len(ord) :
                                       whole[i][2] = first[i][2] + second[i][2]
    /\ (Returned /\ run = 2) => as_sets(all_frequent_itemsets) = first_result

\* a second call on the transactions in another order has returned two
\* levels; one transaction holds the label Transaction_0, and two candidates
\* were counted over at least two transactions
C21_Witness ==
    /\ Returned /\ run = 2
    /\ transactions # first_args[1]
    /\ Len(all_frequent_itemsets) >= 2
    /\ \E i \in DOMAIN transactions : "Transaction_0" \in transactions[i]

\* C22: a step of a mining run leaves its inputs as they were: the
\* transaction list and every transaction; the previous level handed to
\* generate_candidates, which the output list holds as its last level; the
\* candidate set handed to count_support, which is still the set that
\* generate_candidates returned; and every level already in the output
C22_Step ==
    /\ transactions' = transactions
    /\ Len(all_frequent_itemsets') >= Len(all_frequent_itemsets)
    /\ \A i \in DOMAIN all_frequent_itemsets :
           all_frequent_itemsets'[i] = all_frequent_itemsets[i]
    /\ (pc = "loop" /\ frequent_itemsets # <<>>) =>
           /\ all_frequent_itemsets'[Len(all_frequent_itemsets)] = frequent_itemsets
           /\ candidates' \in generate_candidates(frequent_itemsets, k)
    /\ pc = "graph" => single_items' = seed_items(G)

C22_InputsUnchanged == [][C22_Step]_vars

\* three levels were appended one after the other and the rules derived
C22_Witness ==
    /\ Derived
    /\ Len(all_frequent_itemsets) = 3
    /\ rules # {}

\* C23: for N > 0, min_support in (0, 1] and item labels that do not begin
\* with "Transaction", the union of the levels lcofi (Pak accidents /
\* connect-game text) returns is exactly the set of the non-empty itemsets X
\* with count(X)/N >= min_support, each with its true count, and X is in
\* level |X|: no frequent itemset is missed
C23_AllFrequentItemsetsReturned ==
    (/\ Returned /\ nb # "example" /\ N > 0
     /\ min_support[1] > 0 /\ min_support[1] <= min_support[2]
     /\ \A x \in DistinctItems : ~startswith(x, "Transaction")) =>
        /\ UNION {items(all_frequent_itemsets[i]) : i \in DOMAIN all_frequent_itemsets}
               = {<<X, Support(X)>> :
                     X \in {Y \in (SUBSET DistinctItems) \ {{}} :
                               Support(Y) * min_support[2] >= min_support[1] * N}}
        /\ \A i \in DOMAIN all_frequent_itemsets :
               \A X \in keys(all_frequent_itemsets[i]) : Cardinality(X) = i

\* every subset of three items is frequent and returned, one of the items
\* occurring in a single transaction
C23_Witness ==
    /\ Returned /\ nb = "pak" /\ N = 2
    /\ min_support[1] > 0
    /\ Len(all_frequent_itemsets) = 3
    /\ \E x \in DistinctItems : Support({x}) = 1

NonEmptyLevels ==
    Cardinality({i \in DOMAIN all_frequent_itemsets : all_frequent_itemsets[i] # <<>>})

LargestTransaction ==
    IF N = 0 THEN 0
    ELSE CHOOSE m \in {Cardinality(transactions[i]) : i \in DOMAIN transactions} :
             \A i \in DOMAIN transactions : Cardinality(transactions[i]) <= m

\* the loop counter and the number of non-empty levels stay within the
\* number of distinct items, and within the size of the largest transaction
\* when min_support > 0
C24_Bounds ==
    /\ k <= Cardinality(DistinctItems) + 2
    /\ NonEmptyLevels <= Cardinality(DistinctItems)
    /\ min_support[1] > 0 => NonEmptyLevels <= LargestTransaction

\* C24: for every transaction list and every min_support, 0 and negative
\* values included, the loop of lcofi terminates and lcofi returns; the
\* number of non-empty levels is at most the number of distinct items, and
\* at most the size of the largest transaction when min_support > 0
C24_Terminates == []C24_Bounds /\ <>Returned

\* lcofi has returned at a negative min_support with as many levels as
\* there are distinct items
C24_Witness ==
    /\ Returned
    /\ min_support[1] < 0
    /\ Cardinality(DistinctItems) = 3
    /\ NonEmptyLevels = 3

\* C25: the returned levels are downward closed: every non-empty proper
\* subset S of a retained itemset F is retained in level |S| with a count at
\* least that of F; so when the rules are derived from them, the supports of
\* every antecedent and consequent are in the flattened mapping and no split
\* fails for a missing subset support
C25_DownwardClosed ==
    /\ pc \in {"done", "rules"} =>
           \A i \in DOMAIN all_frequent_itemsets :
               \A F \in items(all_frequent_itemsets[i]) :
                   \A S \in (SUBSET F[1]) \ {{}, F[1]} :
                       /\ Cardinality(S) \in DOMAIN all_frequent_itemsets
                       /\ \E p \in items(all_frequent_itemsets[Cardinality(S)]) :
                              p[1] = S /\ p[2] >= F[2]
    /\ Derived =>
           /\ error # "KeyError"
           /\ error = "" =>
                  \A F \in TableKeys :
                      \A S \in (SUBSET F) \ {{}, F} :
                          /\ S \in TableKeys
                          /\ \/ \E r \in rules :
                                    r.antecedents = S /\ r.consequents = F \ S
                             \/ ~meets(Support(F), Support(S), min_confidence)
                             \/ Support(S) = 0

\* rules were derived from three levels, one subset having a larger count
\* than the itemset of three items
C25_Witness ==
    /\ Derived /\ error = ""
    /\ Len(all_frequent_itemsets) = 3
    /\ \E r \in rules :
           Cardinality(r.antecedents) = 2 /\ r.antecedent_support > r.support

\* C26: for one transaction list and thresholds s1 <= s2, every (itemset,
\* count) pair of level k of lcofi(transactions, s2) is in level k of
\* lcofi(transactions, s1), and lcofi(transactions, s2) has at most as many
\* levels
C26_MonotoneInThreshold ==
    (Returned /\ run = 2) =>
        /\ Len(all_frequent_itemsets) <= Len(first_result)
        /\ \A i \in DOMAIN all_frequent_itemsets :
               items(all_frequent_itemsets[i]) \subseteq first_result[i]

\* the call at the larger threshold has returned fewer levels, and fewer
\* itemsets in level 1, than the call at the smaller one
C26_Witness ==
    /\ Returned /\ run = 2 /\ nb = "pak"
    /\ first_args[2][1] > 0
    /\ ~at_most(min_support, first_args[2])
    /\ Len(all_frequent_itemsets) < Len(first_result)
    /\ items(all_frequent_itemsets[1]) # first_result[1]
    /\ all_frequent_itemsets[1] # <<>>

\* the denominator of Zhang's metric of a returned row,
\* max(supp(F) (1 - supp(A)), supp(A) (supp(C) - supp(F))), times N * N; the
\* epsilon the example cell adds to the supports changes neither whether it
\* is zero nor its sign
ZhangDenominator(r) ==
    LET left == r.support * (N - r.antecedent_support)
        right == r.antecedent_support * (r.consequent_support - r.support)
    IN  IF left >= right THEN left ELSE right

\* C27: for every rule derived from miner output with min_support > 0 the
\* denominator of Zhang's metric is not zero
C27_ZhangDenominatorNonZero ==
    (Derived /\ min_support[1] > 0) =>
        \A r \in rules : ZhangDenominator(r) # 0

\* C27, amended: for every rule derived from miner output with
\* min_support > 0 the denominator of Zhang's metric is zero exactly when
\* the antecedent is contained in every transaction (its support is 1), and
\* positive otherwise
C27_ZhangDenominatorZeroIffFullAntecedent ==
    (Derived /\ min_support[1] > 0) =>
        \A r \in rules :
            /\ ZhangDenominator(r) >= 0
            /\ ZhangDenominator(r) = 0 <=>
                   \A i \in DOMAIN transactions : r.antecedents \subseteq transactions[i]

\* the rules derived at a min_support > 0 hold one whose denominator is zero
\* and one whose denominator is not
C27_Witness ==
    /\ Derived /\ min_support[1] > 0
    /\ \E r \in rules : ZhangDenominator(r) = 0
    /\ \E r \in rules : ZhangDenominator(r) > 0

====
